---- MODULE Spec2Model ----
(***************************************************************************)
(* Bearer-token session service of src/src/auth/mod.rs: login issues a    *)
(* signed, time-bound JWT; verify_token checks the blacklist, the          *)
(* signature and the expiry; handle_logout revokes a token and sweeps the  *)
(* blacklist; middleware gates protected routes.  Requests run as          *)
(* concurrent tasks sharing the blacklist behind one mutex.                *)
(***************************************************************************)
EXTENDS Integers, FiniteSets, Sequences, TLC

(***************************************************************************)
(* Bounds of the model and constants of the program.                       *)
(***************************************************************************)
\* Number of concurrent request tasks.
NumTasks == 2
\* Clock instants 0..MaxEarly lie at the start of the run.
MaxEarly == 1
\* Clock instants around the expiry of the early tokens run from
\* TokenLifetime to TokenLifetime + MaxEarly + MaxLate.
MaxLate == 1
\* At most MaxIssued distinct tokens are issued in a run.
MaxIssued == 2
\* Duration::hours(1) in create_token, in seconds.
TokenLifetime == 3600
\* Validation::default() of jsonwebtoken: leeway of 60 seconds on exp.
Leeway == 60

Tasks == 1..NumTasks

\* The instants at which the clock is read: the start of the run, where the
\* early tokens are issued; the instants around their expiry; and instants
\* past the leeway of the codec.  The clock never goes back; it may jump
\* from one instant to any later one.
Times ==
    (0..MaxEarly)
    \cup (TokenLifetime..(TokenLifetime + MaxEarly + MaxLate))
    \cup ((TokenLifetime + Leeway + 1)..(TokenLifetime + Leeway + MaxEarly))

\* The signing secret of the process and a secret an attacker signs with.
jwt_secret == "server-secret"
OtherSecret == "attacker-secret"

(***************************************************************************)
(* Claims and the token codec (jsonwebtoken encode / decode, HS256).       *)
(***************************************************************************)
\* Claims::new: a plain value, no validation.
Claims(sub, exp, iat) == [sub |-> sub, exp |-> exp, iat |-> iat]

NoClaims == Claims("", -1, -1)

\* HMAC over the serialized claims: a function of payload and key, taken
\* to be collision free.
HS256(claims, key) == [sub |-> claims.sub, exp |-> claims.exp, iat |-> claims.iat, key |-> key]

NoMac == HS256(NoClaims, "")

\* encode(&Header::default(), &claims, &EncodingKey::from_secret(key)):
\* header.payload.signature, deterministic in claims and key.
encode(claims, key) == [form |-> "jwt", payload |-> claims, mac |-> HS256(claims, key)]

\* What decode::<Claims> answers: the claims or an ErrorKind.
DecodeOk(claims) == [ok |-> TRUE, kind |-> "", claims |-> claims]
DecodeErr(kind) == [ok |-> FALSE, kind |-> kind, claims |-> NoClaims]

\* decode::<Claims>(token, &DecodingKey::from_secret(key), &Validation::default())
\* at clock value t: segments, then header, then signature, then exp with
\* the default leeway.
decode(token, key, t) ==
    IF token.form = "segments" THEN DecodeErr("InvalidToken")
    ELSE IF token.form = "base64" THEN DecodeErr("Base64")
    ELSE IF token.mac # HS256(token.payload, key) THEN DecodeErr("InvalidSignature")
    ELSE IF token.payload.exp < t - Leeway THEN DecodeErr("ExpiredSignature")
    ELSE DecodeOk(token.payload)

(***************************************************************************)
(* Results and the error mapping.                                          *)
(***************************************************************************)
Ok(claims) == [ok |-> TRUE, err |-> "", claims |-> claims]
Err(e) == [ok |-> FALSE, err |-> e, claims |-> NoClaims]
NoResult == [ok |-> FALSE, err |-> "none", claims |-> NoClaims]

ErrorKinds ==
    {"InvalidCredentials", "TokenCreation", "TokenValidation", "TokenExpired",
     "InvalidTokenFormat", "TokenRevoked"}

\* #[error("...")] of enum Error.
ErrorText(e) ==
    CASE e = "InvalidCredentials" -> "Invalid credentials"
      [] e = "TokenCreation" -> "Token creation failed"
      [] e = "TokenValidation" -> "Token validation failed"
      [] e = "TokenExpired" -> "Token has expired"
      [] e = "InvalidTokenFormat" -> "Invalid token format"
      [] e = "TokenRevoked" -> "Token has been revoked"

\* A status arm that answers a revoked token like an expired one.
StatusOf_RevokedUnauthorized(e) ==
    CASE e \in {"InvalidCredentials", "TokenExpired", "TokenRevoked"} -> 401
      [] e \in {"TokenCreation", "TokenValidation"} -> 500
      [] e = "InvalidTokenFormat" -> 400

\* The status arm of impl From<Error> for (StatusCode, Json<Value>).
StatusOf(e) ==
    CASE e \in {"InvalidCredentials", "TokenExpired"} -> 401
      [] e \in {"TokenCreation", "TokenValidation"} -> 500
      [] e = "InvalidTokenFormat" -> 400
      [] e = "TokenRevoked" -> 403

\* The "code" arm of the same impl.
CodeOf(e) ==
    CASE e = "TokenExpired" -> "token_expired"
      [] e = "InvalidCredentials" -> "invalid_credentials"
      [] e = "TokenValidation" -> "token_invalid"
      [] e = "TokenCreation" -> "token_creation_failed"
      [] e = "InvalidTokenFormat" -> "invalid_format"
      [] e = "TokenRevoked" -> "token_revoked"

\* An HTTP response: status and the fields of its JSON body.
Response(status, error, code, token, token_type, token_expires, message) ==
    [status |-> status, error |-> error, code |-> code, token |-> token,
     token_type |-> token_type, token_expires |-> token_expires, message |-> message]

NoToken == [form |-> "none", payload |-> NoClaims, mac |-> NoMac]

NoResponse == Response(0, "", "", NoToken, "", -1, "")

\* impl From<Error> for (StatusCode, Json<Value>).
ErrorResponse(e) == Response(StatusOf(e), ErrorText(e), CodeOf(e), NoToken, "", -1, "")

\* The two header failures of decode_token carry no code.
HeaderErrorResponse(text) == Response(401, text, "", NoToken, "", -1, "")

(***************************************************************************)
(* The revocation store: HashMap<String, i64> behind a Mutex.              *)
(***************************************************************************)
\* HashMap::contains_key.
contains_key(bl, token) == token \in DOMAIN bl

\* An insert that takes a second insert of a token for its removal.
insert_Toggle(bl, token, exp) ==
    IF token \in DOMAIN bl
    THEN [k \in DOMAIN bl \ {token} |-> bl[k]]
    ELSE [k \in DOMAIN bl \cup {token} |-> IF k = token THEN exp ELSE bl[k]]

\* HashMap::insert: a present key has its value overwritten.
insert(bl, token, exp) ==
    [k \in DOMAIN bl \cup {token} |-> IF k = token THEN exp ELSE bl[k]]

\* A sweep with the comparison turned round: it keeps the expired entries
\* and drops the live ones.
retain_Inverted(bl, t) == [k \in {x \in DOMAIN bl : bl[x] < t} |-> bl[k]]

\* A sweep that removes nothing.
retain_KeepsAll(bl, t) == bl

\* A sweep that keeps the entries expiring at the very instant of the sweep.
retain_KeepsBoundary(bl, t) == [k \in {x \in DOMAIN bl : bl[x] >= t} |-> bl[k]]

\* blacklist.retain(|_, exp| exp > &mut now)
retain(bl, t) == [k \in {x \in DOMAIN bl : bl[x] > t} |-> bl[k]]

EmptyMap == [k \in {} |-> 0]

(***************************************************************************)
(* Session: the operations on tokens, as functions of the store content    *)
(* bl and the clock value t they read.                                     *)
(***************************************************************************)
\* A create_token that reports the issue time as expires_at.
create_token_ReportsIssueTime(user_id, t) ==
    [token |-> encode(Claims(user_id, t + TokenLifetime, t), jwt_secret),
     expires_at |-> t]

\* A create_token that forgets the validity window: the token expires as it
\* is issued.
create_token_NoLifetime(user_id, t) ==
    [token |-> encode(Claims(user_id, t, t), jwt_secret),
     expires_at |-> t]

\* Session::create_token at clock value t: the token and expires_at.
create_token(user_id, t) ==
    [token |-> encode(Claims(user_id, t + TokenLifetime, t), jwt_secret),
     expires_at |-> t + TokenLifetime]

\* A login that tells an unknown user from a wrong password.
login_Enumerating(username, password, t) ==
    IF username = "admin" /\ password = "password"
    THEN Response(200, "", "", encode(Claims(username, t + TokenLifetime, t), jwt_secret),
                  "Bearer", t + TokenLifetime, "")
    ELSE IF username = "admin" THEN ErrorResponse("InvalidCredentials")
    ELSE Response(404, "User not found", "user_not_found", NoToken, "", -1, "")

\* Session::login: the credential check and the LoginResponse.
login(username, password, t) ==
    IF username = "admin" /\ password = "password"
    THEN LET c == create_token(username, t)
         IN  Response(200, "", "", c.token, "Bearer", c.expires_at, "")
    ELSE ErrorResponse("InvalidCredentials")

\* A verify_token without the blacklist check.
verify_token_NoRevocationCheck(token, bl, t) ==
    LET d == decode(token, jwt_secret, t)
    IN  IF d.ok
        THEN IF d.claims.exp < t THEN Err("TokenExpired") ELSE Ok(d.claims)
        ELSE CASE d.kind = "ExpiredSignature" -> Err("TokenExpired")
               [] d.kind = "InvalidToken" -> Err("InvalidTokenFormat")
               [] OTHER -> Err("TokenValidation")

\* A verify_token that decodes and checks the expiry before it looks at the
\* blacklist.
verify_token_DecodeFirst(token, bl, t) ==
    LET r == verify_token_NoRevocationCheck(token, bl, t)
    IN  IF ~r.ok THEN r
        ELSE IF contains_key(bl, token) THEN Err("TokenRevoked")
        ELSE r

\* Session::verify_token under the store lock: blacklist, then decode, then
\* the explicit expiry comparison.  t is the clock value of the explicit
\* comparison (line 159); the codec reads the clock no later, and an exp it
\* rejects with its leeway at an earlier instant is below t as well, so one
\* clock value decides the call.
verify_token(token, bl, t) ==
    IF contains_key(bl, token) THEN Err("TokenRevoked")
    ELSE LET d == decode(token, jwt_secret, t)
         IN  IF d.ok
             THEN IF d.claims.exp < t THEN Err("TokenExpired") ELSE Ok(d.claims)
             ELSE CASE d.kind = "ExpiredSignature" -> Err("TokenExpired")
                    [] d.kind = "InvalidToken" -> Err("InvalidTokenFormat")
                    [] OTHER -> Err("TokenValidation")

\* Requests carry an Authorization header or none: absent, present but not
\* readable as a string, or text made of a prefix and the rest.
NoHeader == [kind |-> "none", scheme |-> "", rest |-> NoToken]
OpaqueHeader == [kind |-> "opaque", scheme |-> "", rest |-> NoToken]
TextHeader(scheme, token) == [kind |-> "text", scheme |-> scheme, rest |-> token]

\* A decode_token without the starts_with("Bearer ") test.
HeaderError_AnyScheme(hdr) ==
    IF hdr.kind # "text" THEN "Missing authorization header" ELSE ""

\* Steps 1 and 2 of Session::decode_token: the header failure, if any.
HeaderError(hdr) ==
    IF hdr.kind # "text" THEN "Missing authorization header"
    ELSE IF hdr.scheme # "Bearer " THEN "Invalid authorization header format"
    ELSE ""

\* What decode_token returns: Ok((token, claims)) or Err((status, json)).
DecodeTokenOk(token, claims) ==
    [ok |-> TRUE, token |-> token, claims |-> claims, resp |-> NoResponse]
DecodeTokenErr(resp) ==
    [ok |-> FALSE, token |-> NoToken, claims |-> NoClaims, resp |-> resp]
NoDecoded == DecodeTokenErr(NoResponse)

\* Step 3 of Session::decode_token: verify the text after the prefix.
decode_token(hdr, bl, t) ==
    LET r == verify_token(hdr.rest, bl, t)
    IN  IF r.ok THEN DecodeTokenOk(hdr.rest, r.claims)
        ELSE DecodeTokenErr(ErrorResponse(r.err))

(***************************************************************************)
(* State.                                                                  *)
(***************************************************************************)
VARIABLES
    now,        \* Utc::now().timestamp()
    blacklist,  \* AppState.token_blacklist: token -> exp
    lock,       \* the task holding the blacklist mutex, 0 when free
    issued,     \* the tokens login has handed to clients
    revokedOk,  \* the tokens for which invalidate_token has returned Ok(())
    op,         \* per task: the handler it runs
    pc,         \* per task: its position in the handler
    req,        \* per task: the request it serves
    dec,        \* per task: what decode_token returned
    inv,        \* per task: what invalidate_token's verify_token returned
    ext,        \* per task: the claims in the request extensions
    invoked,    \* per task: whether next.run(req) was called
    resp        \* per task: the response of the handler

vars == <<now, blacklist, lock, issued, revokedOk, op, pc, req, dec, inv, ext, invoked, resp>>

taskVars == <<op, pc, req, dec, inv, ext, invoked, resp>>

Usernames == {"admin", "nobody"}
Passwords == {"password", "wrong"}

NoRequest == [username |-> "", password |-> "", hdr |-> NoHeader]
LoginRequest(u, p) == [username |-> u, password |-> p, hdr |-> NoHeader]
HeaderRequest(h) == [username |-> "", password |-> "", hdr |-> h]

\* Strings a client can present that the service never issued: too few
\* segments, a header that is no base64, a token signed with another secret,
\* and an issued token whose payload was altered.
Garbage == [form |-> "segments", payload |-> NoClaims, mac |-> NoMac]
BadBase64 == [form |-> "base64", payload |-> NoClaims, mac |-> NoMac]
Forged == encode(Claims("admin", TokenLifetime, 0), OtherSecret)
Tampered ==
    [form |-> "jwt", payload |-> Claims("root", TokenLifetime, 0),
     mac |-> HS256(Claims("admin", TokenLifetime, 0), jwt_secret)]
BadTokens == {Garbage, BadBase64, Forged, Tampered}

\* The headers a client can send, knowing the tokens issued so far.
Headers(known) ==
    {NoHeader, OpaqueHeader, TextHeader("Basic ", Garbage)}
    \cup {TextHeader("Bearer ", t) : t \in known \cup BadTokens}

Init ==
    /\ now = 0
    /\ blacklist = EmptyMap
    /\ lock = 0
    /\ issued = {}
    /\ revokedOk = {}
    /\ op = [i \in Tasks |-> "idle"]
    /\ pc = [i \in Tasks |-> "idle"]
    /\ req = [i \in Tasks |-> NoRequest]
    /\ dec = [i \in Tasks |-> NoDecoded]
    /\ inv = [i \in Tasks |-> NoResult]
    /\ ext = [i \in Tasks |-> NoClaims]
    /\ invoked = [i \in Tasks |-> FALSE]
    /\ resp = [i \in Tasks |-> NoResponse]

(***************************************************************************)
(* The clock.                                                              *)
(***************************************************************************)
Tick ==
    /\ \E t \in Times : t > now /\ now' = t
    /\ UNCHANGED <<blacklist, lock, issued, revokedOk, taskVars>>

(***************************************************************************)
(* handle_login: no shared state but the clock, one step.                  *)
(***************************************************************************)
handle_login(i) ==
    /\ pc[i] = "idle"
    /\ \E u \in Usernames, p \in Passwords :
          LET r == login(u, p, now)
          IN  /\ r.status = 200 =>
                    (r.token \in issued \/ Cardinality(issued) < MaxIssued)
              /\ op' = [op EXCEPT ![i] = "login"]
              /\ req' = [req EXCEPT ![i] = LoginRequest(u, p)]
              /\ resp' = [resp EXCEPT ![i] = r]
              /\ issued' = IF r.status = 200 THEN issued \cup {r.token} ELSE issued
    /\ pc' = [pc EXCEPT ![i] = "done"]
    /\ UNCHANGED <<now, blacklist, lock, revokedOk, dec, inv, ext, invoked>>

(***************************************************************************)
(* Session::decode_token, shared by handle_logout and middleware.          *)
(***************************************************************************)
\* A request arrives; steps 1 and 2 of decode_token look at its header.
Begin(i, handler) ==
    /\ pc[i] = "idle"
    /\ \E h \in Headers(issued) :
          /\ op' = [op EXCEPT ![i] = handler]
          /\ req' = [req EXCEPT ![i] = HeaderRequest(h)]
          /\ IF HeaderError(h) # ""
             THEN /\ dec' = [dec EXCEPT ![i] = DecodeTokenErr(HeaderErrorResponse(HeaderError(h)))]
                  /\ resp' = [resp EXCEPT ![i] = HeaderErrorResponse(HeaderError(h))]
                  /\ pc' = [pc EXCEPT ![i] = "done"]
             ELSE /\ pc' = [pc EXCEPT ![i] = "decode"]
                  /\ UNCHANGED <<dec, resp>>
    /\ UNCHANGED <<now, blacklist, lock, issued, revokedOk, inv, ext, invoked>>

\* A handle_logout that sweeps the blacklist although decode_token failed.
AfterDecode_SweepOnFailure(handler, d) ==
    IF handler = "logout" THEN (IF d.ok THEN "invalidate" ELSE "cleanup")
    ELSE IF d.ok THEN "handler" ELSE "done"

\* A middleware that forwards the request whatever decode_token returned.
AfterDecode_AlwaysForward(handler, d) ==
    IF handler = "logout" THEN (IF d.ok THEN "invalidate" ELSE "done")
    ELSE "handler"

\* Where a handler goes once decode_token has returned d.
AfterDecode(handler, d) ==
    IF ~d.ok THEN "done" ELSE IF handler = "logout" THEN "invalidate" ELSE "handler"

\* verify_token, line 144: the call of decode_token takes the lock.
DecodeLock(i) ==
    /\ pc[i] = "decode"
    /\ lock = 0
    /\ lock' = i
    /\ pc' = [pc EXCEPT ![i] = "decode_locked"]
    /\ UNCHANGED <<now, blacklist, issued, revokedOk, op, req, dec, inv, ext, invoked, resp>>

\* A decode_token whose guard outlives the call: the lock stays with the task.
DecodeBody_GuardOutlivesCall(i) ==
    /\ pc[i] = "decode_locked"
    /\ lock = i
    /\ LET d == decode_token(req[i].hdr, blacklist, now)
       IN  /\ dec' = [dec EXCEPT ![i] = d]
           /\ pc' = [pc EXCEPT ![i] = AfterDecode(op[i], d)]
           /\ resp' = [resp EXCEPT ![i] = IF d.ok THEN resp[i] ELSE d.resp]
           /\ ext' = [ext EXCEPT ![i] = IF d.ok /\ op[i] = "protected" THEN d.claims ELSE ext[i]]
    /\ lock' = lock
    /\ UNCHANGED <<now, blacklist, issued, revokedOk, op, req, inv, invoked>>

\* verify_token, lines 145-170, and the return of decode_token: the guard
\* is dropped; middleware stores the claims in the request extensions.
DecodeBody(i) ==
    /\ pc[i] = "decode_locked"
    /\ lock = i
    /\ LET d == decode_token(req[i].hdr, blacklist, now)
       IN  /\ dec' = [dec EXCEPT ![i] = d]
           /\ pc' = [pc EXCEPT ![i] = AfterDecode(op[i], d)]
           /\ resp' = [resp EXCEPT ![i] = IF d.ok THEN resp[i] ELSE d.resp]
           /\ ext' = [ext EXCEPT ![i] = IF d.ok /\ op[i] = "protected" THEN d.claims ELSE ext[i]]
    /\ lock' = 0
    /\ UNCHANGED <<now, blacklist, issued, revokedOk, op, req, inv, invoked>>

(***************************************************************************)
(* middleware: the downstream handler.                                     *)
(***************************************************************************)
\* next.run(req): the route handler runs with the claims attached.
RunHandler(i) ==
    /\ pc[i] = "handler"
    /\ invoked' = [invoked EXCEPT ![i] = TRUE]
    /\ resp' = [resp EXCEPT ![i] = Response(200, "", "", NoToken, "", -1, "handled")]
    /\ pc' = [pc EXCEPT ![i] = "done"]
    /\ UNCHANGED <<now, blacklist, lock, issued, revokedOk, op, req, dec, inv, ext>>

(***************************************************************************)
(* handle_logout: invalidate_token, then cleanup_blacklist.                *)
(***************************************************************************)
\* invalidate_token, line 204: verify_token takes the lock.
InvalidateLock(i) ==
    /\ pc[i] = "invalidate"
    /\ lock = 0
    /\ lock' = i
    /\ pc' = [pc EXCEPT ![i] = "invalidate_locked"]
    /\ UNCHANGED <<now, blacklist, issued, revokedOk, op, req, dec, inv, ext, invoked, resp>>

\* An invalidate_token that still holds the guard of its verification when it
\* reaches the lock() of line 205.
InvalidateVerify_KeepsGuard(i) ==
    /\ pc[i] = "invalidate_locked"
    /\ lock = i
    /\ LET r == verify_token(dec[i].token, blacklist, now)
       IN  /\ inv' = [inv EXCEPT ![i] = r]
           /\ pc' = [pc EXCEPT ![i] = IF r.ok THEN "insert" ELSE "done"]
           /\ resp' = [resp EXCEPT ![i] = IF r.ok THEN resp[i] ELSE ErrorResponse(r.err)]
    /\ lock' = IF verify_token(dec[i].token, blacklist, now).ok THEN lock ELSE 0
    /\ UNCHANGED <<now, blacklist, issued, revokedOk, op, req, dec, ext, invoked>>

\* invalidate_token, line 204: verify_token returns and `?` propagates.
InvalidateVerify(i) ==
    /\ pc[i] = "invalidate_locked"
    /\ lock = i
    /\ LET r == verify_token(dec[i].token, blacklist, now)
       IN  /\ inv' = [inv EXCEPT ![i] = r]
           /\ pc' = [pc EXCEPT ![i] = IF r.ok THEN "insert" ELSE "done"]
           /\ resp' = [resp EXCEPT ![i] = IF r.ok THEN resp[i] ELSE ErrorResponse(r.err)]
    /\ lock' = 0
    /\ UNCHANGED <<now, blacklist, issued, revokedOk, op, req, dec, ext, invoked>>

\* invalidate_token, line 205: the lock is taken again.
InsertLock(i) ==
    /\ pc[i] = "insert"
    /\ lock = 0
    /\ lock' = i
    /\ pc' = [pc EXCEPT ![i] = "insert_locked"]
    /\ UNCHANGED <<now, blacklist, issued, revokedOk, op, req, dec, inv, ext, invoked, resp>>

\* invalidate_token, lines 206-207: insert and return Ok(()).
InsertBody(i) ==
    /\ pc[i] = "insert_locked"
    /\ lock = i
    /\ blacklist' = insert(blacklist, dec[i].token, inv[i].claims.exp)
    /\ revokedOk' = revokedOk \cup {dec[i].token}
    /\ lock' = 0
    /\ pc' = [pc EXCEPT ![i] = "cleanup"]
    /\ UNCHANGED <<now, issued, op, req, dec, inv, ext, invoked, resp>>

\* cleanup_blacklist, line 211.
CleanupLock(i) ==
    /\ pc[i] = "cleanup"
    /\ lock = 0
    /\ lock' = i
    /\ pc' = [pc EXCEPT ![i] = "cleanup_locked"]
    /\ UNCHANGED <<now, blacklist, issued, revokedOk, op, req, dec, inv, ext, invoked, resp>>

\* cleanup_blacklist, lines 212-213, and the LogoutResponse.
CleanupBody(i) ==
    /\ pc[i] = "cleanup_locked"
    /\ lock = i
    /\ blacklist' = retain(blacklist, now)
    /\ lock' = 0
    /\ resp' = [resp EXCEPT ![i] = Response(200, "", "", NoToken, "", -1, "Successfully logged out")]
    /\ pc' = [pc EXCEPT ![i] = "done"]
    /\ UNCHANGED <<now, issued, revokedOk, op, req, dec, inv, ext, invoked>>

handle_logout(i) ==
    \/ Begin(i, "logout")
    \/ InvalidateLock(i)
    \/ InvalidateVerify(i)
    \/ InsertLock(i)
    \/ InsertBody(i)
    \/ CleanupLock(i)
    \/ CleanupBody(i)

middleware(i) ==
    \/ Begin(i, "protected")
    \/ RunHandler(i)

\* The response is sent; the task serves the next request.
Finish(i) ==
    /\ pc[i] = "done"
    /\ op' = [op EXCEPT ![i] = "idle"]
    /\ pc' = [pc EXCEPT ![i] = "idle"]
    /\ req' = [req EXCEPT ![i] = NoRequest]
    /\ dec' = [dec EXCEPT ![i] = NoDecoded]
    /\ inv' = [inv EXCEPT ![i] = NoResult]
    /\ ext' = [ext EXCEPT ![i] = NoClaims]
    /\ invoked' = [invoked EXCEPT ![i] = FALSE]
    /\ resp' = [resp EXCEPT ![i] = NoResponse]
    /\ UNCHANGED <<now, blacklist, lock, issued, revokedOk>>

Next ==
    \/ Tick
    \/ \E i \in Tasks : handle_login(i)
    \/ \E i \in Tasks : DecodeLock(i)
    \/ \E i \in Tasks : DecodeBody(i)
    \/ \E i \in Tasks : handle_logout(i)
    \/ \E i \in Tasks : middleware(i)
    \/ \E i \in Tasks : Finish(i)

Spec == Init /\ [][Next]_vars

\* Scheduling: a task that can run its body inside a call on the store, or
\* the downstream handler, eventually runs it; a task waiting in lock()
\* eventually gets the mutex if the mutex is free again and again.
Fairness ==
    \A i \in Tasks :
        /\ WF_vars(DecodeBody(i))
        /\ WF_vars(InvalidateVerify(i))
        /\ WF_vars(InsertBody(i))
        /\ WF_vars(CleanupBody(i))
        /\ WF_vars(RunHandler(i))
        /\ SF_vars(DecodeLock(i))
        /\ SF_vars(InvalidateLock(i))
        /\ SF_vars(InsertLock(i))
        /\ SF_vars(CleanupLock(i))

\* The first login of a run.
FirstLogin(i) == handle_login(i) /\ issued = {}

\* The clock passes the expiry of a token issued at 0 by more than the leeway.
Expire == Tick /\ now' = TokenLifetime + Leeway + 1

\* The requests that contend for the store around one issued token.
LiveNext ==
    \/ Expire
    \/ \E i \in Tasks : FirstLogin(i)
    \/ \E i \in Tasks : DecodeLock(i)
    \/ \E i \in Tasks : DecodeBody(i)
    \/ \E i \in Tasks : handle_logout(i)
    \/ \E i \in Tasks : middleware(i)
    \/ \E i \in Tasks : Finish(i)

FairSpec == Init /\ [][LiveNext]_vars /\ Fairness

\* The response of a login is sent; the task serves its next request.
FinishLogin(i) == Finish(i) /\ op[i] = "login"

\* Every task serves at most one request after its logins: the requests in
\* flight are the only ones that ever touch the store.
RaceNext ==
    \/ Tick
    \/ \E i \in Tasks : handle_login(i)
    \/ \E i \in Tasks : DecodeLock(i)
    \/ \E i \in Tasks : DecodeBody(i)
    \/ \E i \in Tasks : handle_logout(i)
    \/ \E i \in Tasks : middleware(i)
    \/ \E i \in Tasks : FinishLogin(i)

RaceSpec == Init /\ [][RaceNext]_vars

(***************************************************************************)
(* Properties.  verify_token is a function of the token, the store content *)
(* and the clock, and every call site applies it to the current state      *)
(* while it holds the lock: what a call made in a state returns is         *)
(* verify_token(token, blacklist, now).                                    *)
(***************************************************************************)
\* Every string a client can present in the current state.
Presentable == issued \cup BadTokens

\* Task i has finished a request of the given handler.
Finished(i, handler) == op[i] = handler /\ pc[i] = "done"

\* C1: once invalidate_token(token) has returned Ok, no verify_token(token)
\* returns Ok any more, at any clock value, also after a sweep has removed
\* the entry.
C1_RevokedNeverVerifies ==
    \A t \in revokedOk : ~verify_token(t, blacklist, now).ok

\* C2: once invalidate_token(token) has returned Ok, every verify_token(token)
\* made while now < exp fails with TokenRevoked.
C2_RevokedWhileUnexpired ==
    \A t \in revokedOk :
        now < t.payload.exp => verify_token(t, blacklist, now) = Err("TokenRevoked")

\* C2 witness: a protected request presented a revoked, unexpired token and
\* was answered token_revoked.
C2_Witness ==
    \E i \in Tasks :
        /\ Finished(i, "protected")
        /\ req[i].hdr.rest \in revokedOk
        /\ now < req[i].hdr.rest.payload.exp
        /\ dec[i] = DecodeTokenErr(ErrorResponse("TokenRevoked"))
        /\ resp[i].code = "token_revoked"

\* C3: a token issued with exp = t and never revoked verifies at every
\* now < t and fails with TokenExpired at every now >= t.
C3_ExpiryBoundary ==
    \A t \in issued \ revokedOk :
        verify_token(t, blacklist, now) =
            IF now < t.payload.exp THEN Ok(t.payload) ELSE Err("TokenExpired")

InvalidateStep(i) == pc[i] = "invalidate_locked" /\ pc'[i] # pc[i]

LoginStep(i) ==
    pc[i] = "idle" /\ pc'[i] = "done" /\ op'[i] = "login" /\ resp'[i].status = 200

\* C5: a token issued by a login that follows the revocation of another
\* token of the same subject verifies, at whatever clock value it is issued.
C5_NewTokenVerifies ==
    [][\A i \in Tasks :
          (LoginStep(i) /\ \E t \in revokedOk : t.payload.sub = req'[i].username)
              => verify_token(resp'[i].token, blacklist', now').ok
      ]_vars

\* The codec accepts the token under the service's secret: three segments,
\* a readable header and a matching signature.
WellSigned(t) == t.form = "jwt" /\ t.mac = HS256(t.payload, jwt_secret)

\* C6: verify_token reports the first failing check in the order revocation,
\* decode, expiry: a token in the store yields TokenRevoked even when it is
\* past its exp or does not decode; a token not in the store that does not
\* decode yields a decode error even when it is past its exp; and Ok carries
\* the claims of a token that passed all three checks.
C6_CheckOrder ==
    \A t \in Presentable :
        LET r == verify_token(t, blacklist, now)
        IN  /\ contains_key(blacklist, t) => r = Err("TokenRevoked")
            /\ (~contains_key(blacklist, t) /\ ~WellSigned(t))
                  => (~r.ok /\ r.err \in {"InvalidTokenFormat", "TokenValidation"})
            /\ (~contains_key(blacklist, t) /\ WellSigned(t) /\ t.payload.exp < now)
                  => r = Err("TokenExpired")
            /\ r.ok <=> (/\ ~contains_key(blacklist, t)
                         /\ WellSigned(t)
                         /\ ~(t.payload.exp < now))
            /\ r.ok => r.claims = t.payload

\* C6 witness: a request presented a token that is both in the store and
\* past its exp, and was answered token_revoked.
C6_Witness ==
    \E i \in Tasks :
        /\ Finished(i, "protected")
        /\ contains_key(blacklist, req[i].hdr.rest)
        /\ req[i].hdr.rest.payload.exp < now
        /\ dec[i] = DecodeTokenErr(ErrorResponse("TokenRevoked"))

\* C7: the token of a successful login of user u at time t0 carries
\* sub = u, iat = t0 and exp = token_expires of the response, and
\* verify_token returns exactly these claims at every clock value from t0
\* up to expiry, as long as the token is not in the store.
C7_LoginRoundTrip ==
    [][\A i \in Tasks :
          LoginStep(i) =>
              LET r == resp'[i]
                  c == Claims(req'[i].username, r.token_expires, now)
              IN  /\ r.token.payload = c
                  /\ r.token \in issued'
                  /\ \A t \in Times :
                        (now <= t /\ t < r.token_expires /\ ~contains_key(blacklist', r.token))
                            => verify_token(r.token, blacklist', t) = Ok(c)
      ]_vars

\* C7 witness: the token of a finished login was presented to a protected
\* route before its expiry and verify_token returned the issued claims.
C7_Witness ==
    \E i, j \in Tasks :
        /\ Finished(i, "login")
        /\ resp[i].status = 200
        /\ Finished(j, "protected")
        /\ req[j].hdr.rest = resp[i].token
        /\ now < resp[i].token_expires
        /\ dec[j].ok
        /\ dec[j].claims = Claims(req[i].username, resp[i].token_expires, resp[i].token.payload.iat)
        /\ dec[j].claims.sub = "admin"

\* Task i has finished a login whose credentials do not match.
FailedLogin(i) ==
    Finished(i, "login") /\ ~(req[i].username = "admin" /\ req[i].password = "password")

\* C8: failing logins are indistinguishable: a known user with a wrong
\* password and an unknown user get the same response, 401 with code
\* invalid_credentials, and no token.
C8_NoEnumeration ==
    \A i, j \in Tasks :
        (FailedLogin(i) /\ FailedLogin(j)) =>
            /\ resp[i] = resp[j]
            /\ resp[i].status = 401
            /\ resp[i].code = "invalid_credentials"
            /\ resp[i].error = "Invalid credentials"
            /\ resp[i].token = NoToken

\* C8 witness: a known user with a wrong password and an unknown user have
\* both been answered.
C8_Witness ==
    \E i, j \in Tasks :
        /\ FailedLogin(i) /\ req[i].username = "admin"
        /\ FailedLogin(j) /\ req[j].username = "nobody"
        /\ resp[i].status = 401

\* C9: the store changes only in a step of a handle_logout whose
\* decode_token and invalidate_token's verify_token have both returned Ok,
\* and such a handle_logout answers 200; every step of a login, of a
\* protected request, of decode_token and of a logout that returns an error
\* leaves the store as it was.
C9_FailuresKeepStore ==
    [][/\ blacklist' # blacklist =>
            \E i \in Tasks :
                /\ pc'[i] # pc[i]
                /\ op[i] = "logout"
                /\ dec[i].ok
                /\ inv[i].ok
                /\ pc[i] \in {"insert_locked", "cleanup_locked"}
       /\ \A i \in Tasks :
            (pc'[i] = "done" /\ pc[i] # "done" /\ op'[i] = "logout" /\ resp'[i].status # 200)
                => (~(dec'[i].ok /\ inv'[i].ok) /\ blacklist' = blacklist)
       /\ \A i \in Tasks :
            (pc'[i] # pc[i] /\ op'[i] \in {"login", "protected"}) => blacklist' = blacklist
      ]_vars

\* C9 witness: a logout has returned an error while the store holds an entry
\* that a sweep would remove.
C9_Witness ==
    \E i \in Tasks :
        /\ Finished(i, "logout")
        /\ resp[i].status # 200
        /\ req[i].hdr.kind = "text"
        /\ retain(blacklist, now) # blacklist

\* The responses decode_token can fail with.
DecodeFailures ==
    {ErrorResponse(e) : e \in {"TokenRevoked", "TokenExpired", "InvalidTokenFormat", "TokenValidation"}}
    \cup {HeaderErrorResponse("Missing authorization header"),
          HeaderErrorResponse("Invalid authorization header format")}

\* C10: the downstream handler runs if and only if decode_token succeeded;
\* it then runs with the claims verify_token returned for the presented
\* token; a request whose decode_token failed is answered with that error
\* and never reaches the handler.
C10_RequestGate ==
    \A i \in Tasks :
        op[i] = "protected" =>
            /\ (pc[i] = "handler" \/ invoked[i]) =>
                  /\ dec[i].ok
                  /\ dec[i].token = req[i].hdr.rest
                  /\ ext[i] = dec[i].claims
                  /\ ext[i] = req[i].hdr.rest.payload
                  /\ WellSigned(req[i].hdr.rest)
            /\ pc[i] = "done" =>
                  /\ invoked[i] <=> dec[i].ok
                  /\ ~dec[i].ok => (resp[i] = dec[i].resp /\ resp[i] \in DecodeFailures)

\* C10 witness: one protected request has reached the handler with the
\* claims of its token, another was turned away without reaching it.
C10_Witness ==
    \E i, j \in Tasks :
        /\ Finished(i, "protected") /\ invoked[i] /\ ext[i].sub = "admin"
        /\ Finished(j, "protected") /\ ~invoked[j] /\ resp[j].status = 403

\* Task i serves a request that goes through decode_token.
UsesDecodeToken(i) == op[i] \in {"logout", "protected"}

\* C11: a request without a readable Authorization header is answered 401
\* "Missing authorization header", one whose header does not start with
\* "Bearer " is answered 401 "Invalid authorization header format"; neither
\* reaches verify_token or the lock of the store.  Any other request has the
\* text after the prefix verified as it stands.
C11_HeaderClassification ==
    \A i \in Tasks :
        UsesDecodeToken(i) =>
            LET h == req[i].hdr
                bad == h.kind # "text" \/ h.scheme # "Bearer "
            IN  /\ bad =>
                      /\ pc[i] = "done"
                      /\ lock # i
                      /\ resp[i].status = 401
                      /\ resp[i].code = ""
                      /\ resp[i].error =
                            IF h.kind # "text" THEN "Missing authorization header"
                            ELSE "Invalid authorization header format"
                      /\ dec[i] = DecodeTokenErr(resp[i])
                      /\ inv[i] = NoResult
                      /\ ~invoked[i]
                /\ (~bad /\ pc[i] \notin {"decode", "decode_locked"}) =>
                      /\ dec[i].ok => (dec[i].token = h.rest /\ dec[i].claims = h.rest.payload)
                      /\ ~dec[i].ok =>
                            \E e \in {"TokenRevoked", "TokenExpired", "InvalidTokenFormat",
                                      "TokenValidation"} :
                                /\ dec[i].resp = ErrorResponse(e)
                                /\ e = "TokenRevoked" => h.rest \in revokedOk
                                /\ e = "InvalidTokenFormat" => h.rest.form = "segments"

\* C11 witness: a request without header and a request with a Basic header
\* have both been turned away.
C11_Witness ==
    \E i, j \in Tasks :
        /\ UsesDecodeToken(i) /\ pc[i] = "done" /\ req[i].hdr.kind # "text"
        /\ resp[i].error = "Missing authorization header"
        /\ UsesDecodeToken(j) /\ pc[j] = "done" /\ req[j].hdr.kind = "text"
        /\ req[j].hdr.scheme = "Basic "
        /\ resp[j].error = "Invalid authorization header format"

\* The error table of the specification: kind, status, machine code.
ErrorTable ==
    { <<"InvalidCredentials", 401, "invalid_credentials">>,
      <<"TokenExpired", 401, "token_expired">>,
      <<"TokenRevoked", 403, "token_revoked">>,
      <<"InvalidTokenFormat", 400, "invalid_format">>,
      <<"TokenValidation", 500, "token_invalid">>,
      <<"TokenCreation", 500, "token_creation_failed">> }

\* C12: every error kind is answered with the status and the code of its row
\* of the error table, each kind has one row, and every response that carries
\* a code carries the status of the row with that code.
C12_ErrorTable ==
    /\ \A e \in ErrorKinds :
          /\ <<e, ErrorResponse(e).status, ErrorResponse(e).code>> \in ErrorTable
          /\ Cardinality({row \in ErrorTable : row[1] = e}) = 1
    /\ \A row \in ErrorTable : row[1] \in ErrorKinds
    /\ \A i \in Tasks :
          resp[i].code # "" =>
              \E row \in ErrorTable :
                  /\ resp[i].code = row[3]
                  /\ resp[i].status = row[2]
                  /\ resp[i] = ErrorResponse(row[1])

\* C12 witness: one request has been answered 403 token_revoked while another
\* has been answered 500 token_invalid.
C12_Witness ==
    \E i, j \in Tasks :
        /\ pc[i] = "done" /\ resp[i].status = 403 /\ resp[i].code = "token_revoked"
        /\ pc[j] = "done" /\ resp[j].status = 500 /\ resp[j].code = "token_invalid"

\* The positions at which a task is inside one call on the store.
LockedPcs == {"decode_locked", "invalidate_locked", "insert_locked", "cleanup_locked"}

\* C13: a task holds the lock exactly while it is inside one call on the
\* store (so never during login, never while the downstream handler runs and
\* never between two calls); the store changes only in a step of the lock
\* holder, and every step of the lock holder ends its call and frees the lock.
C13_LockDiscipline ==
    /\ [](/\ lock \in {0} \cup Tasks
          /\ \A i \in Tasks : (lock = i) <=> (pc[i] \in LockedPcs)
          /\ \A i \in Tasks : (op[i] = "login" \/ pc[i] = "handler") => lock # i)
    /\ [][/\ blacklist' # blacklist => (lock \in Tasks /\ pc'[lock] # pc[lock])
          /\ \A i \in Tasks : (lock = i /\ pc'[i] # pc[i]) => (lock' = 0 /\ pc'[i] \notin LockedPcs)
          /\ \A i \in Tasks : (lock = i /\ pc'[i] = pc[i]) => lock' = i]_vars

\* C13 witness: the downstream handler of one request is about to run while
\* another task is inside a call on the store.
C13_Witness ==
    \E i, j \in Tasks :
        /\ pc[i] = "handler" /\ dec[i].ok
        /\ lock = j /\ pc[j] \in LockedPcs

\* C14: a token that verify_token rejects is rejected by every later
\* verify_token as well, whatever steps of logins, revocations, sweeps and of
\* the clock come in between.
C14_RejectedStaysRejected ==
    [][\A t \in Presentable :
          ~verify_token(t, blacklist, now).ok => ~verify_token(t, blacklist', now').ok]_vars

\* Task i completes the sweep of cleanup_blacklist in this step.
SweepStep(i) == pc[i] = "cleanup_locked" /\ pc'[i] = "done"

\* C15 as stated: every entry of the store expires after the current time.
C15_EntriesUnexpired ==
    \A k \in DOMAIN blacklist : blacklist[k] > now

\* C15, amended: right after every sweep each remaining entry expires after
\* the time of the sweep; at other times an entry may have reached its expiry.
C15_SweptEntriesUnexpired ==
    [][\A i \in Tasks :
          SweepStep(i) => \A k \in DOMAIN blacklist' : blacklist'[k] > now']_vars

\* C15 witness: a logout has completed its sweep when a token revoked earlier
\* had reached its expiry; that entry is gone and none is left.
C15_Witness ==
    \E i \in Tasks :
        /\ Finished(i, "logout") /\ resp[i].status = 200
        /\ \E t \in revokedOk : t # dec[i].token /\ t.payload.exp <= now
        /\ blacklist = EmptyMap

\* C16: a sweep at time now leaves the store restricted to its entries with
\* expires_at > now: every entry with expires_at <= now is gone, every other
\* entry is kept with its value, and nothing is added.
C16_SweepExact ==
    [][\A i \in Tasks :
          SweepStep(i) =>
              /\ DOMAIN blacklist' = {k \in DOMAIN blacklist : blacklist[k] > now}
              /\ \A k \in DOMAIN blacklist' : blacklist'[k] = blacklist[k]
              /\ \A k \in DOMAIN blacklist : blacklist[k] <= now => k \notin DOMAIN blacklist'
              /\ now' = now]_vars

\* C16 witness: a completed sweep has removed the entry of a token that
\* expires at the instant of the sweep and kept the entry of a token that
\* expires later.
C16_Witness ==
    \E i \in Tasks :
        /\ Finished(i, "logout") /\ resp[i].status = 200
        /\ \E t \in revokedOk : t.payload.exp = now /\ t \notin DOMAIN blacklist
        /\ \E u \in DOMAIN blacklist : blacklist[u] > now

\* C17: every completed request whose bearer token is not a well-formed
\* signed payload has been answered with InvalidTokenFormat, every one whose
\* token is well-formed but not signed with jwt_secret with TokenValidation,
\* and verify_token hands out claims only for tokens signed with jwt_secret.
C17_DecodeClassified ==
    /\ \A i \in Tasks :
          (UsesDecodeToken(i) /\ pc[i] = "done" /\ HeaderError(req[i].hdr) = "") =>
              LET t == req[i].hdr.rest
              IN  /\ t.form # "jwt" => resp[i] = ErrorResponse("InvalidTokenFormat")
                  /\ (t.form = "jwt" /\ ~WellSigned(t)) => resp[i] = ErrorResponse("TokenValidation")
                  /\ dec[i].ok => WellSigned(t)
    /\ \A t \in Presentable : verify_token(t, blacklist, now).ok => (WellSigned(t) /\ t \in issued)

\* Task i completes the insert of invalidate_token in this step.
InsertStep(i) == pc[i] = "insert_locked" /\ pc'[i] # pc[i]

\* C18: every entry of the store is a token signed with jwt_secret, stored
\* with the exp claim it carries; an entry is inserted only by an
\* invalidate_token whose verify_token accepted that token, and
\* a token that has reached its expiry when invalidate_token verifies it is
\* not inserted.
C18_OnlyLiveTokensRevoked ==
    [][/\ \A k \in DOMAIN blacklist' :
              WellSigned(k) /\ k \in issued' /\ blacklist'[k] = k.payload.exp
       /\ \A i \in Tasks :
            /\ InsertStep(i) =>
                  /\ inv[i] = Ok(dec[i].token.payload)
                  /\ DOMAIN blacklist' = DOMAIN blacklist \cup {dec[i].token}
            /\ (InvalidateStep(i) /\ inv'[i].ok) => now < dec[i].token.payload.exp]_vars

\* C19: the token of a login at clock value t0 carries iat = t0 and
\* exp = t0 + 3600, the expires_at of the response is that exp, and every
\* token issued so far has exp = iat + 3600 > iat.
C19_IssuedWindow ==
    [][\A i \in Tasks :
          LoginStep(i) =>
              LET r == resp'[i]
                  c == r.token.payload
              IN  /\ c.iat = now
                  /\ c.exp = now + 3600
                  /\ c.exp > c.iat
                  /\ r.token_expires = c.exp
                  /\ \A t \in issued' : t.payload.exp = t.payload.iat + 3600 /\ t.payload.exp > t.payload.iat
      ]_vars

\* C19 witness: a login at clock value 1 has returned a token with iat 1 and
\* exp 3601 together with expires_at 3601.
C19_Witness ==
    \E i \in Tasks :
        /\ Finished(i, "login") /\ resp[i].status = 200
        /\ resp[i].token.payload.iat = 1
        /\ resp[i].token.payload.exp = 3601
        /\ resp[i].token_expires = 3601
        /\ now = 1

\* The positions at which a task calls lock() on the store.
LockingPcs == {"decode", "invalidate", "insert", "cleanup"}

LogoutOk == Response(200, "", "", NoToken, "", -1, "Successfully logged out")

\* C21: when the only two requests that touch the store are logouts of the
\* same issued token and both have been answered before the token expires,
\* at least one was answered with success, the other with success or
\* TokenRevoked, and the store maps the token to its exp claim.
C21_ConcurrentLogout ==
    \A i, j \in Tasks :
        (/\ i # j
         /\ Finished(i, "logout") /\ Finished(j, "logout")
         /\ HeaderError(req[i].hdr) = "" /\ req[j].hdr = req[i].hdr
         /\ req[i].hdr.rest \in issued
         /\ now < req[i].hdr.rest.payload.exp) =>
            LET t == req[i].hdr.rest
            IN  /\ resp[i] = LogoutOk \/ resp[j] = LogoutOk
                /\ resp[i] \in {LogoutOk, ErrorResponse("TokenRevoked")}
                /\ resp[j] \in {LogoutOk, ErrorResponse("TokenRevoked")}
                /\ contains_key(blacklist, t)
                /\ blacklist[t] = t.payload.exp

\* C21 witness: two logouts of the same unexpired token have both passed the
\* verification of invalidate_token before either inserted, and both have
\* been answered with success.
C21_Witness ==
    \E i, j \in Tasks :
        /\ i # j
        /\ Finished(i, "logout") /\ Finished(j, "logout")
        /\ req[j].hdr = req[i].hdr
        /\ inv[i].ok /\ inv[j].ok
        /\ resp[i] = LogoutOk /\ resp[j] = LogoutOk
        /\ now < dec[i].claims.exp
        /\ blacklist[dec[i].token] = dec[i].claims.exp

====
